---- MODULE Spec2Model ----
(***************************************************************************)
(* Model of the two MQTT-to-D-Bus bridges of mqtt2victron:                 *)
(*   gridmeter/MQTTtoGridMeter.py  (instance = "grid")                     *)
(*   pvmeter/MQTTtoPV.py           (instance = "pv")                       *)
(*                                                                         *)
(* Each program has two threads.  client.loop_start() starts the paho      *)
(* network thread, which calls on_message for every delivered message;     *)
(* the main thread runs main(), which creates the module-level dbusservice *)
(* object and then serves the D-Bus from the GLib main loop.  The model    *)
(* keeps the position of the network thread inside on_message/_update in   *)
(* pc, so that main() and bus-side writes interleave with a pass exactly   *)
(* where the two threads of the code can interleave.                       *)
(*                                                                         *)
(* Numbers are exact rationals <<n, d>> (d > 0, lowest terms); Python's    *)
(* None is the empty tuple.                                                *)
(***************************************************************************)
EXTENDS Integers, Sequences, FiniteSets

VARIABLES
  instance,      \* which of the two programs runs: "grid" or "pv"
  globals,       \* the module-level measurement variables (Field Store)
  dbusservice,   \* the module-level name dbusservice: "None" until main() binds it
  _dbusservice,  \* the items of the VeDbusService: path -> value
  pc,            \* position of the network thread inside on_message / _update
  index,         \* the local variable index of _update
  result,        \* how the last on_message invocation ended
  written,       \* paths the current (or last) pass has assigned
  touched,       \* paths a bus client has written (_handlechangedvalue accepted)
  since,         \* paths a bus client has written since the latest message
  before,        \* variables and entries when the latest message arrived
  log,           \* the messages delivered so far, the latest last
  keep,          \* how many of the latest messages log keeps
  events,        \* on_message invocations the run may still make (-1: any number)
  externals      \* bus-side writes the run may still make

vars == <<instance, globals, dbusservice, _dbusservice, pc, index, result,
          written, touched, since, before, log, keep, events, externals>>

----------------------------------------------------------------------------
(* Bounds of the model                                                     *)

MaxEvents == 2        \* messages delivered in a run of Spec
MaxExternal == 1      \* bus-side writes in a run of Spec
StatusEvents == 3     \* messages delivered in a run of StatusSpec

----------------------------------------------------------------------------
(* Numbers                                                                 *)

None == <<>>

Abs(i) == IF i < 0 THEN -i ELSE i

RECURSIVE GCD(_, _)
GCD(a, b) == IF b = 0 THEN a ELSE GCD(b, a % b)

\* the rational n/d in lowest terms with a positive denominator
Rat(n, d) ==
  LET s == IF d < 0 THEN -1 ELSE 1
      g == GCD(Abs(n), Abs(d))
  IN  <<(s * n) \div g, (s * d) \div g>>

Num(i) == <<i, 1>>

Add(x, y) == Rat(x[1] * y[2] + y[1] * x[2], x[2] * y[2])
Mul(x, y) == Rat(x[1] * y[1], x[2] * y[2])
Div(x, y) == Rat(x[1] * y[2], x[2] * y[1])
GreaterEq(x, y) == x[1] * y[2] >= y[1] * x[2]
Greater(x, y) == x[1] * y[2] > y[1] * x[2]

RECURSIVE Pow10(_)
Pow10(k) == IF k = 0 THEN 1 ELSE 10 * Pow10(k - 1)

\* Python 3 round(x, ndigits): to the nearest multiple of 10^-ndigits, a tie
\* going to the even one
round(x, ndigits) ==
  LET scaled == x[1] * Pow10(ndigits)
      q == scaled \div x[2]
      r == scaled % x[2]
      up == \/ 2 * r > x[2]
            \/ (2 * r = x[2] /\ q % 2 = 1)
  IN  Rat(IF up THEN q + 1 ELSE q, Pow10(ndigits))

----------------------------------------------------------------------------
(* Payloads: the bytes of an MQTT message, and float() of them             *)

Digits == {"0", "1", "2", "3", "4", "5", "6", "7", "8", "9"}

DigitVal(c) ==
  CASE c = "0" -> 0 [] c = "1" -> 1 [] c = "2" -> 2 [] c = "3" -> 3
    [] c = "4" -> 4 [] c = "5" -> 5 [] c = "6" -> 6 [] c = "7" -> 7
    [] c = "8" -> 8 [] c = "9" -> 9

AllDigits(s) == \A i \in 1..Len(s) : s[i] \in Digits

RECURSIVE ToNat(_)
ToNat(s) ==
  IF s = <<>> THEN 0
  ELSE ToNat(SubSeq(s, 1, Len(s) - 1)) * 10 + DigitVal(s[Len(s)])

Unsigned(s) == IF s # <<>> /\ s[1] \in {"-", "+"} THEN Tail(s) ELSE s

DotAt(s) == {i \in 1..Len(s) : s[i] = "."}

IntPart(s) ==
  IF DotAt(s) = {} THEN s ELSE SubSeq(s, 1, (CHOOSE i \in DotAt(s) : TRUE) - 1)

FracPart(s) ==
  IF DotAt(s) = {} THEN <<>>
  ELSE SubSeq(s, (CHOOSE i \in DotAt(s) : TRUE) + 1, Len(s))

\* float(payload) raises ValueError unless the payload is a decimal literal:
\* an optional sign, digits, and at most one decimal point
Parses(s) ==
  LET u == Unsigned(s)
  IN  /\ Cardinality(DotAt(u)) <= 1
      /\ AllDigits(IntPart(u))
      /\ AllDigits(FracPart(u))
      /\ Len(IntPart(u)) + Len(FracPart(u)) > 0

float(s) ==
  LET u == Unsigned(s)
      k == Len(FracPart(u))
      m == ToNat(IntPart(u)) * Pow10(k) + ToNat(FracPart(u))
  IN  Rat(IF s[1] = "-" THEN -m ELSE m, Pow10(k))

----------------------------------------------------------------------------
(* Program constants and configuration                                     *)

GridVoltage == 230          \* the literal 230 of the grid meter's _update
MaxIndex == 255             \* "maximum value of the index"
RunningThreshold == 10      \* "if power above 10 W, set status code to 7"
Running == 7
Standby == 8

\* config["DEFAULT"]["voltage"], config["DEFAULT"]["frequency"],
\* config["PV"]["max"], config["PV"]["position"] of the PV meter's config.ini
nominal_voltage == 230
nominal_frequency == 50
pv_max == 600
pv_position == 0

----------------------------------------------------------------------------
(* Field Store and exposed paths                                           *)

GridFields == {"power_sum", "power_l1", "power_l2", "power_l3",
               "energy_180", "energy_280"}
PVFields == {"power", "voltage", "current", "frequency",
             "energy_180", "energy_280"}
Fields(inst) == IF inst = "grid" THEN GridFields ELSE PVFields

\* the paths dictionary main() passes to DbusDummyService: path -> initial
GridPaths ==
  [p \in {"/Ac/Power", "/Ac/L1/Voltage", "/Ac/L2/Voltage", "/Ac/L3/Voltage",
          "/Ac/L1/Current", "/Ac/L2/Current", "/Ac/L3/Current",
          "/Ac/L1/Power", "/Ac/L2/Power", "/Ac/L3/Power",
          "/Ac/Energy/Forward", "/Ac/Energy/Reverse"} |-> None]

PVPaths ==
  [p \in {"/Ac/Power", "/Ac/Current", "/Ac/Voltage", "/Ac/Energy/Forward",
          "/Ac/MaxPower", "/Ac/Position", "/Ac/StatusCode", "/UpdateIndex",
          "/Ac/L1/Power", "/Ac/L1/Current", "/Ac/L1/Voltage",
          "/Ac/L1/Frequency", "/Ac/L1/Energy/Forward"} |->
     CASE p = "/Ac/MaxPower" -> Num(pv_max)
       [] p = "/Ac/Position" -> Num(pv_position)
       [] p = "/Ac/StatusCode" -> Num(0)
       [] p = "/UpdateIndex" -> Num(0)
       [] OTHER -> None]

\* paths registered writeable=True with onchangecallback=_handlechangedvalue
Writeable(inst) == IF inst = "grid" THEN DOMAIN GridPaths ELSE DOMAIN PVPaths

\* the items of the service after DbusDummyService.__init__: the paths of
\* the dictionary plus the ones __init__ adds itself (not writeable) that
\* _update uses
Registry(inst) ==
  IF inst = "grid"
  THEN [p \in DOMAIN GridPaths \cup {"/UpdateIndex"} |->
          IF p = "/UpdateIndex" THEN Num(0) ELSE GridPaths[p]]
  ELSE [p \in DOMAIN PVPaths \cup {"/StatusCode"} |->
          IF p = "/StatusCode" THEN Num(0) ELSE PVPaths[p]]

Paths(inst) == DOMAIN Registry(inst)

----------------------------------------------------------------------------
(* Inputs                                                                  *)

GridTopics == {"/power", "/p_l1", "/p_l2", "/p_l3", "/180", "/280"}
PVTopics == {"/power", "/voltage", "/current", "/frequency",
             "/energy_180", "/energy_280"}
Recognized(inst) == IF inst = "grid" THEN GridTopics ELSE PVTopics

\* the state when client.loop_start() returns, for the programs of
\* instances; n and x bound the messages and the bus-side writes of the run
\* and k the messages the log keeps
Start(instances, n, x, k) ==
  /\ instance \in instances
  /\ globals = [f \in Fields(instance) |-> None]
  /\ dbusservice = "None"
  /\ _dbusservice = <<>>
  /\ pc = "idle"
  /\ index = None
  /\ result = "none"
  /\ written = {}
  /\ touched = {}
  /\ since = {}
  /\ before = <<>>
  /\ log = <<>>
  /\ keep = k
  /\ events = n
  /\ externals = x

----------------------------------------------------------------------------
(* main thread                                                             *)

\* main(): dbusservice = DbusDummyService(...), then mainloop.run()
main ==
  /\ dbusservice = "None"
  /\ dbusservice' = "DbusDummyService"
  /\ _dbusservice' = Registry(instance)
  /\ UNCHANGED <<before, since, instance, globals, pc, index, result, written, touched,
                 events, externals, log, keep>>

\* a bus client sets a writeable path; _handlechangedvalue returns True, so
\* the value is stored.  Served by the GLib main loop on the main thread.
_handlechangedvalue(path, value) ==
  /\ dbusservice = "DbusDummyService"
  /\ path \in Writeable(instance)
  /\ externals > 0
  /\ _dbusservice' = [_dbusservice EXCEPT ![path] = value]
  /\ touched' = touched \cup {path}
  /\ since' = since \cup {path}
  /\ externals' = externals - 1
  /\ UNCHANGED <<before, instance, globals, dbusservice, pc, index, result, written,
                 events, log, keep>>

----------------------------------------------------------------------------
(* network thread: on_message                                              *)

\* (a variant in which a /p_l1 reading also refreshes the aggregate with
\* the sum of the three phases)
GridAssign_summed(g, topic, v) ==
  CASE topic = "/power" ->
         [g EXCEPT !["power_sum"] = v,
                   !["power_l1"] = Div(v, Num(3)),
                   !["power_l2"] = Div(v, Num(3)),
                   !["power_l3"] = Div(v, Num(3))]
    [] topic = "/p_l1" ->
         [g EXCEPT !["power_l1"] = v,
                   !["power_sum"] =
                      IF g["power_l2"] = None \/ g["power_l3"] = None THEN @
                      ELSE Add(v, Add(g["power_l2"], g["power_l3"]))]
    [] topic = "/p_l2" -> [g EXCEPT !["power_l2"] = v]
    [] topic = "/p_l3" -> [g EXCEPT !["power_l3"] = v]
    [] topic = "/180" -> [g EXCEPT !["energy_180"] = round(Div(v, Num(1000)), 3)]
    [] topic = "/280" -> [g EXCEPT !["energy_280"] = round(Div(v, Num(1000)), 3)]
    [] OTHER -> g

\* the assignments on_message makes for a topic, grid meter
GridAssign(g, topic, v) ==
  CASE topic = "/power" ->
         [g EXCEPT !["power_sum"] = v,
                   !["power_l1"] = Div(v, Num(3)),
                   !["power_l2"] = Div(v, Num(3)),
                   !["power_l3"] = Div(v, Num(3))]
    [] topic = "/p_l1" -> [g EXCEPT !["power_l1"] = v]
    [] topic = "/p_l2" -> [g EXCEPT !["power_l2"] = v]
    [] topic = "/p_l3" -> [g EXCEPT !["power_l3"] = v]
    [] topic = "/180" -> [g EXCEPT !["energy_180"] = round(Div(v, Num(1000)), 3)]
    [] topic = "/280" -> [g EXCEPT !["energy_280"] = round(Div(v, Num(1000)), 3)]
    [] OTHER -> g

\* (a variant that adds a /voltage reading to the stored one)
PVAssign_adds(g, topic, v) ==
  CASE topic = "/power" -> [g EXCEPT !["power"] = Mul(Num(-1), v)]
    [] topic = "/voltage" ->
         [g EXCEPT !["voltage"] = IF @ = None THEN v ELSE Add(@, v)]
    [] topic = "/current" -> [g EXCEPT !["current"] = Mul(Num(-1), v)]
    [] topic = "/frequency" -> [g EXCEPT !["frequency"] = v]
    [] topic = "/energy_180" -> [g EXCEPT !["energy_180"] = Div(v, Num(1000))]
    [] topic = "/energy_280" -> [g EXCEPT !["energy_280"] = Div(v, Num(1000))]
    [] OTHER -> g

\* the assignments on_message makes for a topic, PV meter
PVAssign(g, topic, v) ==
  CASE topic = "/power" -> [g EXCEPT !["power"] = Mul(Num(-1), v)]
    [] topic = "/voltage" -> [g EXCEPT !["voltage"] = v]
    [] topic = "/current" -> [g EXCEPT !["current"] = Mul(Num(-1), v)]
    [] topic = "/frequency" -> [g EXCEPT !["frequency"] = v]
    [] topic = "/energy_180" -> [g EXCEPT !["energy_180"] = Div(v, Num(1000))]
    [] topic = "/energy_280" -> [g EXCEPT !["energy_280"] = Div(v, Num(1000))]
    [] OTHER -> g

Assign(g, topic, v) ==
  IF instance = "grid" THEN GridAssign(g, topic, v) ELSE PVAssign(g, topic, v)

\* the last k elements of a sequence
Latest(s, k) == IF Len(s) <= k THEN s ELSE SubSeq(s, Len(s) - k + 1, Len(s))

\* what the runs that keep a log remember of the state a message arrives
\* in, when the invocation for the message before it ran _update to its end
Snapshot ==
  IF keep > 0 /\ pc = "idle" /\ result = "done"
  THEN [globals |-> globals, items |-> _dbusservice]
  ELSE <<>>

\* (a variant whose try/except guards float() alone, so that _update runs
\* after a rejected payload too)
on_message_goes_on(topic, payload) ==
  /\ pc = "idle"
  /\ events # 0
  /\ events' = IF events > 0 THEN events - 1 ELSE events
  /\ log' = Latest(Append(log, [topic |-> topic, payload |-> payload]), keep)
  /\ written' = {}
  /\ since' = {}
  /\ before' = Snapshot
  /\ globals' = IF topic \in Recognized(instance) /\ Parses(payload)
                THEN Assign(globals, topic, float(payload))
                ELSE globals
  /\ result' = "running"
  /\ pc' = "call"
  /\ UNCHANGED <<instance, dbusservice, _dbusservice, index, touched, keep,
                 externals>>

\* (a variant without the try/except: the ValueError leaves on_message and
\* ends the network thread)
on_message_raises(topic, payload) ==
  /\ pc = "idle"
  /\ events # 0
  /\ events' = IF events > 0 THEN events - 1 ELSE events
  /\ log' = Latest(Append(log, [topic |-> topic, payload |-> payload]), keep)
  /\ written' = {}
  /\ since' = {}
  /\ before' = Snapshot
  /\ IF topic \in Recognized(instance) /\ ~Parses(payload)
     THEN /\ result' = "ValueError"
          /\ pc' = "raised"
          /\ UNCHANGED globals
     ELSE /\ globals' = IF topic \in Recognized(instance)
                        THEN Assign(globals, topic, float(payload))
                        ELSE globals
          /\ result' = "running"
          /\ pc' = "call"
  /\ UNCHANGED <<instance, dbusservice, _dbusservice, index, touched, keep,
                 externals>>

\* on_message up to the call of dbusservice._update(): the if/elif chain.
\* float() is evaluated only in the branch of a recognized topic; when it
\* raises, the except clause logs and on_message returns.
on_message(topic, payload) ==
  /\ pc = "idle"
  /\ events # 0
  /\ events' = IF events > 0 THEN events - 1 ELSE events
  /\ log' = Latest(Append(log, [topic |-> topic, payload |-> payload]), keep)
  /\ written' = {}
  /\ since' = {}
  /\ before' = Snapshot
  /\ IF topic \in Recognized(instance) /\ ~Parses(payload)
     THEN /\ result' = "ValueError"
          /\ pc' = "idle"
          /\ UNCHANGED globals
     ELSE /\ globals' = IF topic \in Recognized(instance)
                        THEN Assign(globals, topic, float(payload))
                        ELSE globals
          /\ result' = "running"
          /\ pc' = "call"
  /\ UNCHANGED <<instance, dbusservice, _dbusservice, index, touched, keep,
                 externals>>

\* dbusservice._update(): while dbusservice is still None the attribute
\* lookup raises AttributeError, which the except clause logs
call_update ==
  /\ pc = "call"
  /\ IF dbusservice = "None"
     THEN /\ result' = "AttributeError"
          /\ pc' = "idle"
     ELSE /\ pc' = IF instance = "grid" THEN "grid_power" ELSE "pv_ac"
          /\ UNCHANGED result
  /\ UNCHANGED <<before, since, instance, globals, dbusservice, _dbusservice, index, written,
                 touched, events, externals, log, keep>>

----------------------------------------------------------------------------
(* network thread: DbusDummyService._update                                *)

\* (a variant that fills an entry only while it is unknown)
Store_once(items, assigns) ==
  [p \in DOMAIN items |->
     IF p \in DOMAIN assigns /\ items[p] = None THEN assigns[p] ELSE items[p]]

\* self._dbusservice[path] = value for every path of the function assigns
Store(items, assigns) ==
  [p \in DOMAIN items |-> IF p \in DOMAIN assigns THEN assigns[p] ELSE items[p]]

\* (a variant assigning 0 while the field is unknown)
IfKnown_zero(g, sources) ==
  [p \in DOMAIN sources |->
     IF g[sources[p]] # None THEN g[sources[p]] ELSE Num(0)]

\* "if not <field> is None: self._dbusservice[path] = <field>" for every path
\* of sources (path -> field name)
IfKnown(g, sources) ==
  [p \in {q \in DOMAIN sources : g[sources[q]] # None} |-> g[sources[p]]]

\* one block of consecutive assignments of _update, after which the thread
\* is at next.  The assignments of a block go to different paths and read
\* only the measurement variables, which no other thread touches, so a
\* bus-side write between two of them has the effect of one before or one
\* after the block.
Block(here, assigns, next) ==
  /\ pc = here
  /\ _dbusservice' = Store(_dbusservice, assigns)
  /\ written' = written \cup DOMAIN assigns
  /\ pc' = next
  /\ UNCHANGED <<before, since, instance, globals, dbusservice, index, result, touched,
                 events, externals, log, keep>>

GridPowerSources ==
  [p \in {"/Ac/Power", "/Ac/L1/Power", "/Ac/L2/Power", "/Ac/L3/Power"} |->
     CASE p = "/Ac/Power" -> "power_sum"
       [] p = "/Ac/L1/Power" -> "power_l1"
       [] p = "/Ac/L2/Power" -> "power_l2"
       [] p = "/Ac/L3/Power" -> "power_l3"]

GridEnergySources ==
  [p \in {"/Ac/Energy/Forward", "/Ac/Energy/Reverse"} |->
     IF p = "/Ac/Energy/Forward" THEN "energy_180" ELSE "energy_280"]

\* (a variant taking the current of phase 2 from the power of phase 1)
GridCurrentSources_shifted ==
  [p \in {"/Ac/L1/Current", "/Ac/L2/Current", "/Ac/L3/Current"} |->
     CASE p = "/Ac/L1/Current" -> "power_l1"
       [] p = "/Ac/L2/Current" -> "power_l1"
       [] p = "/Ac/L3/Current" -> "power_l3"]

GridCurrentSources ==
  [p \in {"/Ac/L1/Current", "/Ac/L2/Current", "/Ac/L3/Current"} |->
     CASE p = "/Ac/L1/Current" -> "power_l1"
       [] p = "/Ac/L2/Current" -> "power_l2"
       [] p = "/Ac/L3/Current" -> "power_l3"]

\* (a variant publishing phase 1 on the paths of phases 1 and 2)
GridPowerWrites_copied(g) ==
  IfKnown(g, [GridPowerSources EXCEPT !["/Ac/L2/Power"] = "power_l1"])

GridPowerWrites(g) == IfKnown(g, GridPowerSources)

GridEnergyWrites(g) == IfKnown(g, GridEnergySources)

GridVoltageWrites ==
  [p \in {"/Ac/L1/Voltage", "/Ac/L2/Voltage", "/Ac/L3/Voltage"} |->
     Num(GridVoltage)]

\* (a variant that does not round)
GridCurrentWrites_exact(g) ==
  LET known == IfKnown(g, GridCurrentSources)
  IN  [p \in DOMAIN known |-> Div(known[p], Num(GridVoltage))]

GridCurrentWrites(g) ==
  LET known == IfKnown(g, GridCurrentSources)
  IN  [p \in DOMAIN known |-> round(Div(known[p], Num(GridVoltage)), 2)]

grid_power == Block("grid_power", GridPowerWrites(globals), "grid_energy")
grid_energy == Block("grid_energy", GridEnergyWrites(globals), "grid_voltage")
grid_voltage == Block("grid_voltage", GridVoltageWrites, "grid_current")
grid_current == Block("grid_current", GridCurrentWrites(globals), "index")

\* (a variant rounding the computed current to 2 decimals, as the grid
\* meter does)
PVCurrent_rounded(g, path) ==
  IF g["current"] # None THEN [p \in {path} |-> g["current"]]
  ELSE IF g["power"] # None
       THEN [p \in {path} |-> round(Div(g["power"], Num(nominal_voltage)), 2)]
       ELSE [p \in {} |-> None]

\* the value _update assigns to a current path of the PV meter, as a
\* function on {path} (empty when neither current nor power is known)
PVCurrent(g, path) ==
  IF g["current"] # None THEN [p \in {path} |-> g["current"]]
  ELSE IF g["power"] # None
       THEN [p \in {path} |-> Div(g["power"], Num(nominal_voltage))]
       ELSE [p \in {} |-> None]

\* (a variant publishing the configured voltage whatever was measured)
PVVoltage_nominal(g) == Num(nominal_voltage)

PVVoltage(g) == IF g["voltage"] # None THEN g["voltage"] ELSE Num(nominal_voltage)

PVFrequency(g) ==
  IF g["frequency"] # None THEN g["frequency"] ELSE Num(nominal_frequency)

\* (a variant taking the other energy counter)
PVForward_180(g) == IF g["energy_180"] # None THEN g["energy_180"] ELSE Num(0)

PVForward(g) == IF g["energy_280"] # None THEN g["energy_280"] ELSE Num(0)

Merge(f, h) ==
  [p \in DOMAIN f \cup DOMAIN h |-> IF p \in DOMAIN f THEN f[p] ELSE h[p]]

PVAcWrites(g) ==
  Merge(IfKnown(g, [p \in {"/Ac/Power"} |-> "power"]),
        Merge(PVCurrent(g, "/Ac/Current"),
              [p \in {"/Ac/Voltage", "/Ac/Energy/Forward"} |->
                 IF p = "/Ac/Voltage" THEN PVVoltage(g) ELSE PVForward(g)]))

\* (variant: the phase-1 current comes from the current variable alone)
PVL1Writes_measured(g) ==
  Merge(IfKnown(g, [p \in {"/Ac/L1/Power", "/Ac/L1/Current"} |->
                      IF p = "/Ac/L1/Power" THEN "power" ELSE "current"]),
        [p \in {"/Ac/L1/Voltage", "/Ac/L1/Frequency",
                "/Ac/L1/Energy/Forward"} |->
           CASE p = "/Ac/L1/Voltage" -> PVVoltage(g)
             [] p = "/Ac/L1/Frequency" -> PVFrequency(g)
             [] p = "/Ac/L1/Energy/Forward" -> PVForward(g)])

PVL1Writes(g) ==
  Merge(IfKnown(g, [p \in {"/Ac/L1/Power"} |-> "power"]),
        Merge(PVCurrent(g, "/Ac/L1/Current"),
              [p \in {"/Ac/L1/Voltage", "/Ac/L1/Frequency",
                      "/Ac/L1/Energy/Forward"} |->
                 CASE p = "/Ac/L1/Voltage" -> PVVoltage(g)
                   [] p = "/Ac/L1/Frequency" -> PVFrequency(g)
                   [] p = "/Ac/L1/Energy/Forward" -> PVForward(g)]))

pv_ac == Block("pv_ac", PVAcWrites(globals), "pv_l1")
pv_l1 == Block("pv_l1", PVL1Writes(globals), "index")

\* (a variant wrapping one too early: "index >= 255")
NextIndex_early(current) ==
  LET i == Add(current, Num(1))
  IN  IF GreaterEq(i, Num(MaxIndex)) THEN Num(0) ELSE i

\* index = self._dbusservice[path_UpdateIndex] + 1, wrapped past MaxIndex
NextIndex(current) ==
  LET i == Add(current, Num(1))
  IN  IF Greater(i, Num(MaxIndex)) THEN Num(0) ELSE i

\* a value that is a number (a bus client can store any D-Bus variant)
IsNumber(v) == Len(v) = 2

\* index = self._dbusservice[path_UpdateIndex] + 1 and the comparison with
\* MaxIndex; adding 1 to an entry that holds no number raises TypeError,
\* which leaves _update and is logged by the except clause of on_message
update_index ==
  /\ pc = "index"
  /\ IF IsNumber(_dbusservice["/UpdateIndex"])
     THEN /\ index' = NextIndex(_dbusservice["/UpdateIndex"])
          /\ pc' = "store_index"
          /\ UNCHANGED result
     ELSE /\ result' = "TypeError"
          /\ pc' = "idle"
          /\ UNCHANGED index
  /\ UNCHANGED <<before, since, instance, globals, dbusservice, _dbusservice,
                 written, touched, events, externals, log, keep>>

\* self._dbusservice[path_UpdateIndex] = index; the grid meter's _update
\* returns after it, the PV meter's goes on to the status code
store_index ==
  /\ pc = "store_index"
  /\ _dbusservice' = [_dbusservice EXCEPT !["/UpdateIndex"] = index]
  /\ written' = written \cup {"/UpdateIndex"}
  /\ IF instance = "grid"
     THEN pc' = "idle" /\ result' = "done"
     ELSE pc' = "pv_status" /\ UNCHANGED result
  /\ UNCHANGED <<before, since, instance, globals, dbusservice, index, touched, events,
                 externals, log, keep>>

\* (a variant with "> 10" for ">= 10")
StatusOf_above(g, items) ==
  IF g["power"] # None /\ Greater(items["/Ac/Power"], Num(RunningThreshold))
  THEN Num(Running)
  ELSE Num(Standby)

\* the status code the PV meter's _update computes: it reads the exposed
\* /Ac/Power, not the variable power
StatusOf(g, items) ==
  IF g["power"] # None /\ GreaterEq(items["/Ac/Power"], Num(RunningThreshold))
  THEN Num(Running)
  ELSE Num(Standby)

\* (a variant assigning the code on every pass)
StatusWrites_always(g, items) == [p \in {"/StatusCode"} |-> StatusOf(g, items)]

\* assigned only when the computed code differs from the published one
StatusWrites(g, items) ==
  IF items["/StatusCode"] # StatusOf(g, items)
  THEN [p \in {"/StatusCode"} |-> StatusOf(g, items)]
  ELSE [p \in {} |-> None]

pv_status ==
  /\ pc = "pv_status"
  /\ _dbusservice' = Store(_dbusservice, StatusWrites(globals, _dbusservice))
  /\ written' = written \cup DOMAIN StatusWrites(globals, _dbusservice)
  /\ pc' = "idle"
  /\ result' = "done"
  /\ UNCHANGED <<before, since, instance, globals, dbusservice, index, touched, events,
                 externals, log, keep>>

----------------------------------------------------------------------------------------------------------------------------------------------------
(* Specifications                                                          *)

\* the subscription delivers every topic below the prefix: the recognized
\* suffixes and others
Topics(inst) == Recognized(inst) \cup {"/other"}

\* payloads: a number and bytes that float() rejects
Payloads == {<<"9", "0", "0">>, <<"o", "n">>}

\* what a bus client writes
ExternalValues == {Num(300)}

\* paths _update reads or assigns
CorePaths(inst) == Paths(inst) \ {"/Ac/MaxPower", "/Ac/Position", "/Ac/StatusCode"}

grid_update == grid_power \/ grid_energy \/ grid_voltage \/ grid_current

pv_update == pv_ac \/ pv_l1 \/ pv_status

deliver(T, P) == \E t \in T, p \in P : on_message(t, p)

SetValue(X) == \E path \in X, v \in ExternalValues : _handlechangedvalue(path, v)

Init == Start({"grid", "pv"}, MaxEvents, MaxExternal, 0)

Next ==
  \/ main
  \/ deliver(Topics(instance), Payloads)
  \/ call_update
  \/ grid_update
  \/ pv_update
  \/ update_index
  \/ store_index
  \/ SetValue(CorePaths(instance))

Spec == Init /\ [][Next]_vars

\* the grid meter alone, with the log of all its messages
GridPayloads == {<<"9", "0", "0">>, <<"5", "0", "0">>}

GridNext ==
  \/ main
  \/ deliver(GridTopics, GridPayloads)
  \/ call_update
  \/ grid_update
  \/ update_index
  \/ store_index
  \/ SetValue(CorePaths("grid"))

\* at most one bus-side write
GridSpec == Start({"grid"}, MaxEvents, 1, MaxEvents) /\ [][GridNext]_vars

\* the PV meter alone, with the log of all its messages: a power below and
\* one at the running threshold (the stored power is the negated payload)
PVPayloads == {<<"5">>, <<"-", "1", "0">>}

PVNext(T) ==
  \/ main
  \/ deliver(T, PVPayloads)
  \/ call_update
  \/ pv_update
  \/ update_index
  \/ store_index
  \/ SetValue(CorePaths("pv"))

PVSpec == Start({"pv"}, MaxEvents, 1, MaxEvents) /\ [][PVNext(PVTopics)]_vars

\* the PV meter with longer runs of fewer topics
StatusSpec ==
  Start({"pv"}, StatusEvents, 1, StatusEvents) /\ [][PVNext({"/power", "/voltage"})]_vars

\* both meters with any number of messages, so that the index runs through
\* all its values; no log, no bus-side writes
IndexNext ==
  \/ main
  \/ deliver({"/power", "/other"}, {<<"9", "0", "0">>})
  \/ call_update
  \/ grid_update
  \/ pv_update
  \/ update_index
  \/ store_index

IndexSpec == Start({"grid", "pv"}, -1, 0, 0) /\ [][IndexNext]_vars

\* both meters with the log of all their messages, every topic with one
\* payload, and at most one bus-side write
RedeliverNext ==
  \/ main
  \/ deliver(Topics(instance), {<<"9", "0", "0">>})
  \/ call_update
  \/ grid_update
  \/ pv_update
  \/ update_index
  \/ store_index
  \/ SetValue(CorePaths(instance))

RedeliverSpec ==
  Start({"grid", "pv"}, MaxEvents, 1, MaxEvents) /\ [][RedeliverNext]_vars

\* what a bus client writes to /UpdateIndex: a number, or the string "x"
IndexValues == {Num(300), <<"x">>}

\* the steps of the network thread inside on_message
network_thread ==
  call_update \/ grid_update \/ pv_update \/ update_index \/ store_index

ErrorNext ==
  \/ main
  \/ deliver({"/power"}, Payloads)
  \/ network_thread
  \/ \E v \in IndexValues : _handlechangedvalue("/UpdateIndex", v)

\* both meters with the log of all their messages, payloads float() accepts
\* and rejects, and bus-side writes to /UpdateIndex; the network thread,
\* once inside on_message, keeps running
ErrorSpec ==
  /\ Start({"grid", "pv"}, MaxEvents, MaxExternal, MaxEvents)
  /\ [][ErrorNext]_vars
  /\ WF_vars(network_thread)

----------------------------------------------------------------------------
(* Vocabulary of the properties                                            *)

Created == dbusservice = "DbusDummyService"

\* the last on_message invocation ran _update to its end and has returned
Completed == pc = "idle" /\ result = "done"

Published(path) == _dbusservice[path]

\* no bus client has written the path
Untouched(path) == path \notin touched

Last(s) == s[Len(s)]

\* a message with the topic has been delivered; the payload of the latest
Received(topic) == \E i \in 1..Len(log) : log[i].topic = topic

LatestPayload(topic) ==
  log[CHOOSE i \in 1..Len(log) :
        /\ log[i].topic = topic
        /\ \A j \in (i + 1)..Len(log) : log[j].topic # topic].payload

PhaseTopic(k) == CASE k = 1 -> "/p_l1" [] k = 2 -> "/p_l2" [] k = 3 -> "/p_l3"
PhaseField(k) == CASE k = 1 -> "power_l1" [] k = 2 -> "power_l2" [] k = 3 -> "power_l3"
PhasePower(k) == CASE k = 1 -> "/Ac/L1/Power" [] k = 2 -> "/Ac/L2/Power" [] k = 3 -> "/Ac/L3/Power"
PhaseCurrent(k) == CASE k = 1 -> "/Ac/L1/Current" [] k = 2 -> "/Ac/L2/Current" [] k = 3 -> "/Ac/L3/Current"
PhaseVoltage(k) == CASE k = 1 -> "/Ac/L1/Voltage" [] k = 2 -> "/Ac/L2/Voltage" [] k = 3 -> "/Ac/L3/Voltage"

----------------------------------------------------------------------------
(* C1 *)

\* C1: for messages handled once main() has bound dbusservice, and with
\* /UpdateIndex not written from the bus: every pass assigns /UpdateIndex
\* exactly once, to its previous value plus 1 modulo 256 (255 is followed
\* by 0), and no other step of the program changes it.
C1_IndexStep ==
  (Created /\ Created' /\ Untouched("/UpdateIndex")) =>
     /\ IF pc = "store_index"
        THEN /\ Published("/UpdateIndex")' =
                  Num((Published("/UpdateIndex")[1] + 1) % (MaxIndex + 1))
             /\ "/UpdateIndex" \notin written
        ELSE Published("/UpdateIndex")' = Published("/UpdateIndex")
     /\ (pc = "call" => pc' # "idle")

C1_RevisionPerEvent ==
  /\ [](Completed => "/UpdateIndex" \in written)
  /\ [][C1_IndexStep]_vars

\* the index has gone from 255 to 0: it reads 0 after a completed pass
C1_Wrapped ==
  /\ Completed
  /\ Published("/UpdateIndex") = Num(0)


----------------------------------------------------------------------------
(* C2 *)

\* C2: an on_message invocation for a recognized topic whose payload float()
\* rejects changes no measurement variable and no exposed entry
\* (/UpdateIndex included) and returns without calling _update.
C2_ParseFailureStep ==
  \A t \in Recognized(instance), p \in {q \in Payloads : ~Parses(q)} :
     (pc = "idle" /\ on_message(t, p)) =>
        /\ UNCHANGED <<globals, _dbusservice>>
        /\ pc' = "idle"
        /\ result' = "ValueError"

C2_ParseFailureChangesNothing == [][C2_ParseFailureStep]_vars

\* a rejected payload arrived after a completed pass had published
C2_RejectedAfterPass ==
  /\ pc = "idle"
  /\ result = "ValueError"
  /\ Created
  /\ Published("/UpdateIndex") = Num(1)
  /\ \E f \in Fields(instance) : globals[f] # None

----------------------------------------------------------------------------
(* C3 *)

\* C3: whenever on_message has returned from a message that assigned a
\* measurement variable, its pass has published and has assigned
\* /UpdateIndex (all or nothing).
C3_AllOrNothing ==
  (/\ pc = "idle"
   /\ log # <<>>
   /\ Last(log).topic \in Recognized(instance)
   /\ Parses(Last(log).payload))
  => (result = "done" /\ "/UpdateIndex" \in written)

----------------------------------------------------------------------------
(* C4 *)

\* between the first assignment of a pass and its assignment of /UpdateIndex
MidPass == pc # "idle" /\ written # {} /\ "/UpdateIndex" \notin written

\* C4: no bus-side write is served between the first assignment of a pass
\* and its assignment of /UpdateIndex.
C4_PassSerialized == [][(externals' # externals) => ~MidPass]_vars

----------------------------------------------------------------------------
(* C5 *)

\* C5: grid meter: when the pass of a /p_lk message with value v has
\* completed and the message before it was /power with value P, then
\* /Ac/Lk/Power reads v and the power entries of the other two phases read
\* P/3 (entries not written from the bus).
C5_DirectOverridesSplit ==
  \A k \in 1..3 :
     (/\ instance = "grid"
      /\ Completed
      /\ Len(log) >= 2
      /\ log[Len(log) - 1].topic = "/power"
      /\ Last(log).topic = PhaseTopic(k))
     => \A j \in 1..3 :
           Untouched(PhasePower(j)) =>
              Published(PhasePower(j)) =
                 IF j = k THEN float(Last(log).payload)
                 ELSE Div(float(log[Len(log) - 1].payload), Num(3))

\* /power 900 then /p_l1 500: phase 1 reads 500, phases 2 and 3 read 300
C5_Overridden ==
  /\ Completed
  /\ Len(log) = 2
  /\ log[1] = [topic |-> "/power", payload |-> <<"9", "0", "0">>]
  /\ log[2] = [topic |-> "/p_l1", payload |-> <<"5", "0", "0">>]
  /\ Published("/Ac/L1/Power") = Num(500)
  /\ Published("/Ac/L2/Power") = Num(300)
  /\ Published("/Ac/L3/Power") = Num(300)

----------------------------------------------------------------------------
(* C6 *)

\* phase k has received a direct /p_lk reading
Direct(k) == \E i \in 1..Len(log) : log[i].topic = PhaseTopic(k)

\* C6: grid meter: once phase k has received a direct /p_lk reading, a
\* /power message leaves the power variable of phase k unchanged.
C6_SplitOnlyWhileUnknown ==
  [][\A k \in 1..3 :
       (/\ Direct(k)
        /\ pc = "idle"
        /\ log' # log
        /\ Last(log').topic = "/power")
       => globals'[PhaseField(k)] = globals[PhaseField(k)]]_vars

----------------------------------------------------------------------------
(* C7 *)

\* C7: grid meter: when the pass of the first message, a /power with value
\* P, has completed, the three phase powers read P/3, the three phase
\* currents round(P/3/230, 2), the three phase voltages 230 and /Ac/Power
\* reads P (entries not written from the bus).
C7_AggregateOnly ==
  (/\ instance = "grid"
   /\ Completed
   /\ Len(log) = 1
   /\ log[1].topic = "/power")
  => LET P == float(log[1].payload)
     IN  /\ Untouched("/Ac/Power") => Published("/Ac/Power") = P
         /\ \A k \in 1..3 :
              /\ globals[PhaseField(k)] = Div(P, Num(3))
              /\ Untouched(PhasePower(k)) =>
                    Published(PhasePower(k)) = Div(P, Num(3))
              /\ Untouched(PhaseCurrent(k)) =>
                    Published(PhaseCurrent(k)) =
                       round(Div(Div(P, Num(3)), Num(GridVoltage)), 2)
              /\ Untouched(PhaseVoltage(k)) =>
                    Published(PhaseVoltage(k)) = Num(GridVoltage)

\* /power 900 alone: currents 1.30, voltages 230
C7_Nine ==
  /\ Completed
  /\ log = <<[topic |-> "/power", payload |-> <<"9", "0", "0">>]>>
  /\ \A k \in 1..3 :
       /\ Published(PhaseCurrent(k)) = Rat(130, 100)
       /\ Published(PhaseVoltage(k)) = Num(230)
       /\ Published(PhasePower(k)) = Num(300)
  /\ Published("/Ac/Power") = Num(900)

----------------------------------------------------------------------------
(* C8 *)

\* the status code of the stored power: Running from 10 W, else Standby
Computed ==
  IF globals["power"] # None /\ GreaterEq(globals["power"], Num(RunningThreshold))
  THEN Num(Running)
  ELSE Num(Standby)

\* C8: PV meter: the status step of a pass assigns /StatusCode if and only
\* if the code of the stored power differs from the published one, and
\* leaves the code of the stored power published; a pass that finds 7
\* published while the power is at least 10 W assigns nothing (/Ac/Power
\* not written from the bus).
C8_StatusStep ==
  (pc = "pv_status" /\ pc' = "idle" /\ Untouched("/Ac/Power")) =>
     /\ ("/StatusCode" \in written') <=> (Published("/StatusCode") # Computed)
     /\ Published("/StatusCode")' = Computed

C8_StatusWrittenOnChange == [][C8_StatusStep]_vars

\* power -5, power 10, power 10: the second pass took the code from 8 to
\* 7, the third has completed without assigning it
C8_NoRedundantWrite ==
  /\ Completed
  /\ Len(log) = 3
  /\ \A i \in 1..3 : log[i].topic = "/power"
  /\ log[1].payload = <<"5">>
  /\ log[2].payload = <<"-", "1", "0">>
  /\ log[3].payload = <<"-", "1", "0">>
  /\ Published("/StatusCode") = Num(Running)
  /\ "/StatusCode" \notin written

----------------------------------------------------------------------------
(* C9 *)

\* C9: PV meter: after every completed pass /StatusCode is 7 if the stored
\* power is known and at least 10 W and 8 otherwise, and no step changes
\* /StatusCode to a value other than 7 or 8 (/Ac/Power not written from
\* the bus).
C9_StatusAfterPass ==
  (instance = "pv" /\ Completed /\ Untouched("/Ac/Power")) =>
     Published("/StatusCode") = Computed

C9_StatusStep ==
  (Created /\ Created' /\ Published("/StatusCode")' # Published("/StatusCode")) =>
     Published("/StatusCode")' \in {Num(Running), Num(Standby)}

----------------------------------------------------------------------------
(* C10 *)

\* the energy entries of the PV meter read the latest payload of topic in
\* kWh, or 0 when none has been received
ForwardIs(topic) ==
  LET e == IF Received(topic)
           THEN Div(float(LatestPayload(topic)), Num(1000))
           ELSE Num(0)
  IN  /\ Untouched("/Ac/Energy/Forward") => Published("/Ac/Energy/Forward") = e
      /\ Untouched("/Ac/L1/Energy/Forward") =>
            Published("/Ac/L1/Energy/Forward") = e

\* C10 as stated: PV meter: after every completed pass /Ac/Energy/Forward
\* and /Ac/L1/Energy/Forward equal the latest /energy_180 payload divided
\* by 1000, or 0 if none has been received.
C10_ForwardFrom180 == (instance = "pv" /\ Completed) => ForwardIs("/energy_180")

\* C10 amended: PV meter: after every completed pass /Ac/Energy/Forward
\* and /Ac/L1/Energy/Forward equal the latest /energy_280 payload divided
\* by 1000, or 0 if no /energy_280 message has been received.
C10_ForwardFrom280 == (instance = "pv" /\ Completed) => ForwardIs("/energy_280")

\* /energy_180 and /energy_280 both received, with different payloads
C10_BothReceived ==
  /\ Completed
  /\ Received("/energy_180")
  /\ Received("/energy_280")
  /\ LatestPayload("/energy_180") # LatestPayload("/energy_280")
  /\ Published("/Ac/Energy/Forward") = Rat(5, 1000)
  /\ Published("/Ac/L1/Energy/Forward") = Rat(5, 1000)

----------------------------------------------------------------------------
(* C11 *)

\* the current entries of the PV meter read x (entries not written from
\* the bus)
CurrentIs(x) ==
  /\ Untouched("/Ac/Current") => Published("/Ac/Current") = x
  /\ Untouched("/Ac/L1/Current") => Published("/Ac/L1/Current") = x

\* the stored power of the latest /power payload
LatestPower == Mul(Num(-1), float(LatestPayload("/power")))

\* the precondition of C11: a completed pass of the PV meter with a /power
\* message received
AfterPower == instance = "pv" /\ Completed /\ Received("/power")

\* C11 as stated: PV meter: after a completed pass with a /power payload p
\* received and no /current message ever received, the current entries
\* read round(-p / nominal_voltage, 2); once a /current payload c has been
\* received they read -c.
C11_CurrentRounded ==
  AfterPower =>
     IF Received("/current")
     THEN CurrentIs(Mul(Num(-1), float(LatestPayload("/current"))))
     ELSE CurrentIs(round(Div(LatestPower, Num(nominal_voltage)), 2))

\* C11 amended: PV meter: after a completed pass with a /power payload p
\* received and no /current message ever received, the current entries
\* read the quotient -p / nominal_voltage, not rounded; once a /current
\* payload c has been received they read -c.
C11_CurrentQuotient ==
  AfterPower =>
     IF Received("/current")
     THEN CurrentIs(Mul(Num(-1), float(LatestPayload("/current"))))
     ELSE CurrentIs(Div(LatestPower, Num(nominal_voltage)))

\* /power 5 alone: both current entries read -5/230 = -1/46, which is not a
\* multiple of 0.01
C11_FiveWatts ==
  /\ Completed
  /\ log = <<[topic |-> "/power", payload |-> <<"5">>]>>
  /\ Published("/Ac/Current") = Rat(-5, 230)
  /\ Published("/Ac/L1/Current") = Rat(-5, 230)
  /\ Published("/Ac/Current") # round(Published("/Ac/Current"), 2)

----------------------------------------------------------------------------
(* C12 *)

\* the latest payload of topic as a number, or the configured value when no
\* message with the topic has been received
MeasuredOr(topic, configured) ==
  IF Received(topic) THEN float(LatestPayload(topic)) ELSE Num(configured)

\* C12: PV meter: after every completed pass /Ac/Voltage and
\* /Ac/L1/Voltage read the latest /voltage payload if one has been received
\* and nominal_voltage otherwise, /Ac/L1/Frequency reads the latest
\* /frequency payload if one has been received and nominal_frequency
\* otherwise (entries not written from the bus), and none of the three is
\* unknown.
C12_VoltageFrequency ==
  (instance = "pv" /\ Completed) =>
     /\ \A p \in {"/Ac/Voltage", "/Ac/L1/Voltage"} :
          /\ Untouched(p) => Published(p) = MeasuredOr("/voltage", nominal_voltage)
          /\ Published(p) # None
     /\ Untouched("/Ac/L1/Frequency") =>
           Published("/Ac/L1/Frequency") = MeasuredOr("/frequency", nominal_frequency)
     /\ Published("/Ac/L1/Frequency") # None

\* /voltage 5 received and no /frequency: the voltages read 5, the
\* frequency reads the configured 50
C12_MeasuredAndNominal ==
  /\ Completed
  /\ Received("/voltage")
  /\ ~Received("/frequency")
  /\ LatestPayload("/voltage") = <<"5">>
  /\ Published("/Ac/Voltage") = Num(5)
  /\ Published("/Ac/L1/Voltage") = Num(5)
  /\ Published("/Ac/L1/Frequency") = Num(nominal_frequency)

----------------------------------------------------------------------------
(* C13 *)

\* the meter-derived entries: power, current, voltage, energy, frequency
MeterPaths == (DOMAIN GridPaths \cup DOMAIN PVPaths) \
                 {"/Ac/MaxPower", "/Ac/Position", "/Ac/StatusCode", "/UpdateIndex"}

\* what a pass of _update assigns from the measurement variables g
Derived(g) ==
  IF instance = "grid"
  THEN Merge(GridPowerWrites(g),
             Merge(GridEnergyWrites(g), Merge(GridVoltageWrites, GridCurrentWrites(g))))
  ELSE Merge(PVAcWrites(g), PVL1Writes(g))

\* a pass has completed that began after the last bus-side write to path:
\* the path was written from the bus, and not since the message of the pass
\* was delivered
PassAfterWrite(path) ==
  /\ Completed
  /\ path \in Paths(instance)
  /\ path \in touched
  /\ path \notin since

\* C13 as stated: in both meters, a value written from the bus to a
\* meter-derived entry is replaced by the value the core derives by the
\* end of the next pass that completes.
C13_AlwaysOverwritten ==
  \A path \in MeterPaths :
     PassAfterWrite(path) =>
        /\ path \in DOMAIN Derived(globals)
        /\ Published(path) = Derived(globals)[path]

\* C13 amended: in both meters, a value written from the bus to a
\* meter-derived entry whose source measurement is known is replaced by the
\* value the core derives by the end of the next pass that completes; an
\* entry whose source is still unknown is not assigned by the pass and
\* keeps the value written from the bus.
C13_OverwrittenWhenKnown ==
  \A path \in MeterPaths :
     PassAfterWrite(path) =>
        IF path \in DOMAIN Derived(globals)
        THEN Published(path) = Derived(globals)[path]
        ELSE path \notin written /\ Published(path) \in ExternalValues

\* a bus client wrote 300 to /Ac/Power and the pass of a later /power 900
\* has replaced it
C13_Replaced ==
  /\ PassAfterWrite("/Ac/Power")
  /\ "/Ac/Power" \in written
  /\ globals[IF instance = "grid" THEN "power_sum" ELSE "power"] # None
  /\ Published("/Ac/Power") # Num(300)

----------------------------------------------------------------------------
(* C14 *)

\* C14: in every state of both meters once the service exists, bus-side
\* writes included, /UpdateIndex holds an integer from 0 to 255.
C14_IndexInRange ==
  Created => \E i \in 0..MaxIndex : Published("/UpdateIndex") = Num(i)

----------------------------------------------------------------------------
(* C15 *)

\* the latest message repeats the one before it, whose pass had completed
\* when the latest arrived
Redelivered ==
  /\ Len(log) >= 2
  /\ log[Len(log)] = log[Len(log) - 1]
  /\ Last(log).topic \in Recognized(instance)
  /\ before # <<>>

\* C15: in both meters, when the pass of a valid message has completed that
\* repeats the message before it, whose pass had completed too, every
\* measurement variable and every meter-derived entry holds the value it
\* had after the first of the two, and /UpdateIndex is one more (modulo
\* 256) than after the first (entries not written from the bus).
C15_Redelivery ==
  (Completed /\ Redelivered) =>
     /\ globals = before.globals
     /\ \A path \in MeterPaths \cap Paths(instance) :
          Untouched(path) => Published(path) = before.items[path]
     /\ Untouched("/UpdateIndex") =>
          Published("/UpdateIndex") =
             Num((before.items["/UpdateIndex"][1] + 1) % (MaxIndex + 1))

\* /voltage 900 delivered twice to the PV meter, both passes completed: the
\* voltage still reads 900 and the index has gone from 1 to 2
C15_Twice ==
  /\ instance = "pv"
  /\ Completed
  /\ Redelivered
  /\ Len(log) = 2
  /\ Last(log).topic = "/voltage"
  /\ globals["voltage"] = Num(900)
  /\ Published("/Ac/Voltage") = Num(900)
  /\ before.items["/UpdateIndex"] = Num(1)
  /\ Published("/UpdateIndex") = Num(2)

----------------------------------------------------------------------------
(* C16 *)

\* C16: in both meters, when on_message has returned from a message whose
\* topic is none of the recognized ones (handled once main() has bound
\* dbusservice), no measurement variable has changed and the invocation has
\* assigned no exposed entry, /UpdateIndex included.
C16_UnknownTopicIgnored ==
  (/\ pc = "idle"
   /\ log # <<>>
   /\ Last(log).topic \notin Recognized(instance)
   /\ result # "AttributeError")
  => /\ written = {}
     /\ result # "ValueError"
     /\ before # <<>> => globals = before.globals

----------------------------------------------------------------------------
(* C17 *)

\* how an on_message invocation ends when the except clause has logged
Errors == {"ValueError", "AttributeError", "TypeError"}

\* _update is being called for a message while the service exists and
\* /UpdateIndex holds a number
PassCanRun ==
  /\ pc = "call"
  /\ Created
  /\ IsNumber(Published("/UpdateIndex"))

----------------------------------------------------------------------------
(* C18 *)

\* C18: in both meters, once a pass has assigned /UpdateIndex, every entry
\* the pass derives holds its value for that pass: the meter-derived
\* entries whose source is known and, in the PV meter, /StatusCode (entries
\* not written from the bus).
C18_IndexLast ==
  ("/UpdateIndex" \in written) =>
     /\ \A path \in DOMAIN Derived(globals) :
          Untouched(path) => Published(path) = Derived(globals)[path]
     /\ (instance = "pv" /\ Untouched("/Ac/Power")) =>
           Published("/StatusCode") = Computed

----------------------------------------------------------------------------
(* C19 *)

\* C19: grid meter: after every completed pass the three phase voltages
\* read 230; for each phase whose power is known the phase current reads
\* the published phase power divided by 230 and rounded to 2 decimals; for
\* a phase whose power is unknown the pass has not assigned the current and
\* it is still unknown (entries not written from the bus).
C19_VoltageAndCurrent ==
  (instance = "grid" /\ Completed) =>
     \A k \in 1..3 :
        /\ Untouched(PhaseVoltage(k)) => Published(PhaseVoltage(k)) = Num(GridVoltage)
        /\ IF globals[PhaseField(k)] # None
           THEN (Untouched(PhaseCurrent(k)) /\ Untouched(PhasePower(k))) =>
                   Published(PhaseCurrent(k)) =
                      round(Div(Published(PhasePower(k)), Num(GridVoltage)), 2)
           ELSE /\ PhaseCurrent(k) \notin written
                /\ Untouched(PhaseCurrent(k)) => Published(PhaseCurrent(k)) = None

\* /p_l1 500 alone: the current of phase 1 reads 2.17 (500/230 = 2.1739..),
\* the currents of phases 2 and 3 are unknown, the voltages read 230
C19_OnePhase ==
  /\ Completed
  /\ log = <<[topic |-> "/p_l1", payload |-> <<"5", "0", "0">>]>>
  /\ Published("/Ac/L1/Current") = Rat(217, 100)
  /\ Published("/Ac/L2/Current") = None
  /\ Published("/Ac/L3/Current") = None
  /\ \A k \in 1..3 : Published(PhaseVoltage(k)) = Num(230)

----------------------------------------------------------------------------
(* C20 *)

\* the measurement variable each entry of the grid meter is taken from
\* (the phase voltages are a constant and have none)
GridSources == Merge(GridPowerSources, Merge(GridEnergySources, GridCurrentSources))

\* C20: grid meter: a step of a pass assigns an entry only if the variable
\* the entry is taken from is known; while that variable is unknown no
\* step of the program changes the entry (only a bus client can); and a
\* variable that is known never becomes unknown or 0 again (the payloads
\* of the runs are not 0).
C20_Step ==
  (instance = "grid" /\ Created /\ Created') =>
     /\ \A path \in DOMAIN GridSources :
          /\ path \in written' \ written => globals[GridSources[path]] # None
          /\ (globals[GridSources[path]] = None /\ externals' = externals) =>
                Published(path)' = Published(path)
     /\ \A f \in GridFields :
          globals[f] # None => globals'[f] \notin {None, Num(0)}

C20_OnlyWhenKnown == [][C20_Step]_vars

\* /280 900 and then /power 500: the second pass has completed, Reverse
\* still reads 0.9 and Forward, never measured, is still unknown
C20_ForwardUnknown ==
  /\ Completed
  /\ Len(log) = 2
  /\ log[1] = [topic |-> "/280", payload |-> <<"9", "0", "0">>]
  /\ log[2] = [topic |-> "/power", payload |-> <<"5", "0", "0">>]
  /\ globals["energy_180"] = None
  /\ Published("/Ac/Energy/Forward") = None
  /\ Published("/Ac/Energy/Reverse") = Rat(9, 10)
  /\ Published("/Ac/Power") = Num(500)

----------------------------------------------------------------------------
(* C21 *)

\* the revision the pass before this one computed (0 before the first)
PreviousIndex == IF index = None THEN Num(0) ELSE index

\* C21: in both meters, what a pass writes does not depend on what bus
\* clients have written: the new revision is the one the pass before
\* computed plus 1 modulo 256, every meter-derived entry a step assigns
\* gets the value derived from the measurement variables, and the status
\* step leaves the code of the stored power published.
C21_Step ==
  (Created /\ Created') =>
     /\ (pc = "index" /\ pc' = "store_index") =>
           index' = Num((PreviousIndex[1] + 1) % (MaxIndex + 1))
     /\ \A path \in (written' \ written) \cap MeterPaths :
           Published(path)' = Derived(globals)[path]
     /\ (pc = "pv_status" /\ pc' = "idle") => Published("/StatusCode")' = Computed

C21_NoReadBack == [][C21_Step]_vars

----------------------------------------------------------------------------
(* C22 *)

\* the aggregate entries of the PV meter and their phase-1 counterparts
Mirrored ==
  {<<"/Ac/Power", "/Ac/L1/Power">>, <<"/Ac/Current", "/Ac/L1/Current">>,
   <<"/Ac/Voltage", "/Ac/L1/Voltage">>,
   <<"/Ac/Energy/Forward", "/Ac/L1/Energy/Forward">>}

\* C22: PV meter: after every completed pass each aggregate entry holds
\* what its phase-1 counterpart holds (both unknown or both the same
\* value), for the pairs no bus client has written to.
C22_AggregateMirrorsPhase1 ==
  (instance = "pv" /\ Created /\ Completed) =>
     \A pair \in Mirrored :
        (Untouched(pair[1]) /\ Untouched(pair[2])) =>
           Published(pair[1]) = Published(pair[2])

\* a pass has completed with the power measured and the current not, and
\* has published power, fallback current and forward energy in both places
C22_BothPlaces ==
  /\ instance = "pv" /\ Created /\ Completed /\ touched = {}
  /\ globals.power # None /\ globals.current = None
  /\ globals.energy_280 # None
  /\ Published("/Ac/L1/Power") = globals.power
  /\ Published("/Ac/L1/Current") # None
  /\ Published("/Ac/Energy/Forward") = globals.energy_280

----------------------------------------------------------------------------
(* C23 *)

\* the pass of a /p_lk message has completed in the grid meter, and the
\* state in which the message arrived is known: either the pass before it
\* had completed, or it is the first message and found the constructed
\* service
PhaseEvent(k) ==
  /\ instance = "grid"
  /\ Completed
  /\ Len(log) >= 1
  /\ Last(log).topic = PhaseTopic(k)
  /\ (before # <<>> \/ Len(log) = 1)

\* the variables and the entries as the last message found them
Arrival ==
  IF before # <<>> THEN before
  ELSE [globals |-> [f \in DOMAIN globals |-> None], items |-> GridPaths]

VoltagePaths == {PhaseVoltage(j) : j \in 1..3}

\* the entries a /p_lk pass may change
PhaseEntries(k) == {PhasePower(k), PhaseCurrent(k)}

Kept(k, paths) ==
  \A path \in paths \ PhaseEntries(k) :
     Untouched(path) => Published(path) = Arrival.items[path]

\* C23 as stated: a /p_lk event changes only phase k's power field and,
\* once its pass has completed, only /Ac/Lk/Power, /Ac/Lk/Current and
\* /UpdateIndex: every other entry of the meter reads what it read when
\* the message arrived (entries not written from the bus).
C23_OnlyPhaseEntries ==
  \A k \in 1..3 :
     PhaseEvent(k) =>
        /\ globals = [Arrival.globals EXCEPT
                         ![PhaseField(k)] = float(Last(log).payload)]
        /\ Kept(k, DOMAIN GridPaths)

\* C23: a /p_lk event changes only phase k's power field; once its pass
\* has completed, /Ac/Power, both energy entries and the other two phases'
\* power and current entries read what they read when the message
\* arrived, and the three voltage entries read 230 (which is a change when
\* no pass had completed before); at every completed pass /Ac/Power is
\* the last /power payload, or unknown when there was none (entries not
\* written from the bus).
C23_PhaseEventFrame ==
  /\ \A k \in 1..3 :
        PhaseEvent(k) =>
           /\ globals = [Arrival.globals EXCEPT
                            ![PhaseField(k)] = float(Last(log).payload)]
           /\ Kept(k, DOMAIN GridPaths \ VoltagePaths)
           /\ \A path \in VoltagePaths :
                 Untouched(path) => Published(path) = Num(GridVoltage)
  /\ (instance = "grid" /\ Completed /\ Untouched("/Ac/Power")) =>
        Published("/Ac/Power") =
           IF Received("/power") THEN float(LatestPayload("/power")) ELSE None

\* /power 900 then /p_l1 500: the aggregate still reads 900 while the
\* phases read 500, 300 and 300
C23_SumDiffers ==
  /\ PhaseEvent(1)
  /\ before # <<>>
  /\ touched = {}
  /\ Published("/Ac/Power") = Num(900)
  /\ Published("/Ac/L1/Power") = Num(500)
  /\ Published("/Ac/L2/Power") = Num(300)
  /\ Published("/Ac/L3/Power") = Num(300)
  /\ before.items["/Ac/L1/Power"] = Num(300)

====
